---- MODULE Spec2Model ----
(***************************************************************************)
(* Model of htmx-ssr/src/server/mod.rs: ServerOptions (base URL read from  *)
(* the environment) and Server (builder, then serve: the accept loop raced *)
(* against an optional graceful-shutdown signal).                          *)
(***************************************************************************)
EXTENDS Naturals, Sequences, FiniteSets, TLC

(***************************************************************************)
(* Bounds                                                                  *)
(***************************************************************************)
\* Longest value of HTMX_SSR_BASE_URL, in tokens.
MaxLen == 4
\* Connections the accept loop accepts in one run.
MaxConns == 2

(***************************************************************************)
(* Strings.  A string is a sequence of tokens; each token stands for the   *)
(* bytes it spells.  " " is a byte no URI may hold.                        *)
(***************************************************************************)
Tok == {"http", "://", "a", "/", " "}

Strings(n) == UNION {[1..k -> Tok] : k \in 0..n}

\* The bytes a token spells.
TokBytes(t) ==
    CASE t = "http" -> <<"h", "t", "t", "p">>
      [] t = "://"  -> <<":", "/", "/">>
      [] OTHER      -> <<t>>

RECURSIVE Flatten(_)
Flatten(s) == IF s = <<>> THEN <<>> ELSE TokBytes(Head(s)) \o Flatten(Tail(s))

\* A token made of scheme/host characters only.
IsWord(t) == t \notin {"://", "/", " ", ":"}

\* Number of leading tokens of s that are words.
RECURSIVE WordPrefixLen(_)
WordPrefixLen(s) ==
    IF s = <<>> \/ ~IsWord(Head(s)) THEN 0 ELSE 1 + WordPrefixLen(Tail(s))

HasInvalidChar(s) == \E i \in 1..Len(s) : s[i] = " "

(***************************************************************************)
(* http::Uri and its FromStr, reached through `url.parse()`.  A Uri has an *)
(* optional scheme, an authority (possibly empty) and a path.              *)
(***************************************************************************)
MkUri(has_scheme, scheme, authority, path) ==
    [has_scheme |-> has_scheme, scheme |-> scheme,
     authority |-> authority, path |-> path]

UriOk(u) == [ok |-> TRUE, uri |-> u]
UriErr(kind) == [ok |-> FALSE, err |-> kind]

\* Scheme2::parse: the scheme is what precedes the first "://", when only
\* scheme characters precede it.  A lone "://" (3 bytes) is too short.
SchemeLen(s) ==
    LET n == WordPrefixLen(s)
    IN  IF n < Len(s) /\ s[n + 1] = "://" /\ Len(Flatten(s)) > 3
        THEN n ELSE Len(s) + 1

HasScheme(s) == SchemeLen(s) <= Len(s)

\* Authority::parse on r: the authority runs to the first '/', and an
\* invalid byte before that is an error.  Yields the authority, the rest.
AuthoritySplit(r) ==
    LET k == WordPrefixLen(r) + 1
    IN  IF k > Len(r)
        THEN [ok |-> TRUE, authority |-> r, rest |-> <<>>]
        ELSE IF r[k] = " "
        THEN [ok |-> FALSE, authority |-> <<>>, rest |-> <<>>]
        ELSE IF r[k] = "/"
        THEN [ok |-> TRUE, authority |-> SubSeq(r, 1, k - 1),
              rest |-> SubSeq(r, k, Len(r))]
        ELSE [ok |-> TRUE, authority |-> SubSeq(r, 1, k - 1) \o <<":">>,
              rest |-> <<"/", "/">> \o SubSeq(r, k + 1, Len(r))]

\* Uri::from_shared followed by parse_full.
UriParse(s) ==
    IF s = <<>> THEN UriErr("Empty")
    ELSE IF s[1] = "/"
    THEN IF HasInvalidChar(s) THEN UriErr("InvalidUriChar")
         ELSE UriOk(MkUri(FALSE, <<>>, <<>>, s))
    ELSE IF HasScheme(s)
    THEN LET n == SchemeLen(s)
             a == AuthoritySplit(SubSeq(s, n + 2, Len(s)))
         IN  IF ~a.ok THEN UriErr("InvalidUriChar")
             ELSE IF a.authority = <<>> THEN UriErr("InvalidFormat")
             ELSE IF HasInvalidChar(a.rest) THEN UriErr("InvalidUriChar")
             ELSE UriOk(MkUri(TRUE, SubSeq(s, 1, n), a.authority, a.rest))
    ELSE LET a == AuthoritySplit(s)
         IN  IF ~a.ok THEN UriErr("InvalidUriChar")
             ELSE IF a.rest # <<>> THEN UriErr("InvalidFormat")
             ELSE UriOk(MkUri(FALSE, <<>>, a.authority, <<>>))

\* Uri::path: "/" stands for the empty path of a Uri with a scheme.
UriPath(u) == IF u.path = <<>> /\ u.has_scheme THEN <<"/">> ELSE u.path

\* impl PartialEq<str> for Uri: the Uri's parts spell the string, where the
\* path "/" of an absolute Uri may be left out of the string.
UriEqStr(u, s) ==
    LET pre == IF u.has_scheme
               THEN Flatten(u.scheme) \o <<":", "/", "/">> \o Flatten(u.authority)
               ELSE Flatten(u.authority)
        b == Flatten(s)
    IN  \/ b = pre \o Flatten(UriPath(u))
        \/ u.has_scheme /\ UriPath(u) = <<"/">> /\ b = pre

(***************************************************************************)
(* Option<http::Uri> and ServerOptions                                     *)
(***************************************************************************)
NoUri == MkUri(FALSE, <<>>, <<>>, <<>>)
None == [some |-> FALSE, val |-> NoUri]
Some(u) == [some |-> TRUE, val |-> u]

ServerOptions(base_url) == [base_url |-> base_url]
DefaultOptions == ServerOptions(None)

HTMX_SSR_BASE_URL == "HTMX_SSR_BASE_URL"

(***************************************************************************)
(* The environment: the variable is absent, holds bytes that are not       *)
(* Unicode, or holds a string.                                             *)
(***************************************************************************)
EnvAbsent == [kind |-> "NotPresent", value |-> <<>>]
EnvNotUnicode == [kind |-> "NotUnicode", value |-> <<>>]
EnvSet(s) == [kind |-> "Present", value |-> s]

EnvValues == {EnvAbsent, EnvNotUnicode} \cup {EnvSet(s) : s \in Strings(MaxLen)}

\* Results of env_var and from_env.
NoError == [kind |-> "none", name |-> "", url |-> <<>>, err |-> ""]
NotUnicode(name) == [kind |-> "NotUnicode", name |-> name, url |-> <<>>, err |-> ""]
BaseUrl(name, url, err) == [kind |-> "BaseUrl", name |-> name, url |-> url, err |-> err]

\* Option<String> -> is it Some: the empty string is None.
EmptyIsSome(value) == TRUE
NonEmptyIsSome(value) == value # <<>>

\* ServerOptions::env_var
env_var(name, e) ==
    CASE e.kind = "Present" ->
            [ok |-> TRUE, some |-> NonEmptyIsSome(e.value), value |-> e.value,
             error |-> NoError]
      [] e.kind = "NotPresent" ->
            [ok |-> TRUE, some |-> FALSE, value |-> <<>>, error |-> NoError]
      [] OTHER ->
            [ok |-> FALSE, some |-> FALSE, value |-> <<>>,
             error |-> NotUnicode(name)]

\* ServerOptions::from_env
from_env(e) ==
    LET v == env_var(HTMX_SSR_BASE_URL, e)
    IN  IF ~v.ok THEN [ok |-> FALSE, options |-> DefaultOptions, error |-> v.error]
        ELSE IF ~v.some
        THEN [ok |-> TRUE, options |-> ServerOptions(None), error |-> NoError]
        ELSE LET p == UriParse(v.value)
             IN  IF p.ok
                 THEN [ok |-> TRUE, options |-> ServerOptions(Some(p.uri)),
                       error |-> NoError]
                 ELSE [ok |-> FALSE, options |-> DefaultOptions,
                       error |-> BaseUrl(HTMX_SSR_BASE_URL, v.value, p.err)]

(***************************************************************************)
(* Listeners.  Server::new takes a listener the caller has bound; asked    *)
(* for port 0, the OS has assigned one of the ephemeral ports.             *)
(***************************************************************************)
Ip == "127.0.0.1"
EphemeralPorts == {"49152", "49153"}
SocketAddr(ip, port) == [ip |-> ip, port |-> port]

Listeners ==
    {[requested |-> "8080", local |-> SocketAddr(Ip, "8080")]}
    \cup {[requested |-> "0", local |-> SocketAddr(Ip, p)] : p \in EphemeralPorts}

NoAddr == SocketAddr("", "")

\* impl Display for SocketAddr
AddrDisplay(addr) == addr.ip \o ":" \o addr.port

\* TcpListener::local_addr: the bound address, or an OS-level failure.
LocalAddrResults(l) == {[ok |-> TRUE, addr |-> l.local], [ok |-> FALSE, addr |-> NoAddr]}

(***************************************************************************)
(* ServerState (server/state.rs): the state every handler shares.          *)
(***************************************************************************)
NoState == [built |-> FALSE, base_url |-> NoUri]

\* The URL http://<local_addr>.
HttpUrlOf(addr) == UriParse(<<"http", "://", AddrDisplay(addr)>>).uri

ServerState_new(opts, addr) ==
    [built |-> TRUE,
     base_url |-> IF opts.base_url.some THEN opts.base_url.val ELSE HttpUrlOf(addr)]

(***************************************************************************)
(* Values the caller configures a Server with.                             *)
(***************************************************************************)
Routes == {"GET /"}
UserSignals == {"s1", "s2"}
CtrlC == "ctrl_c"
NoSignal == "none"

\* An explicit base URL, as a reverse-proxy deployment sets it.
ProxyUrl == MkUri(TRUE, <<"a">>, <<"a">>, <<>>)
OptionChoices == {ServerOptions(None), ServerOptions(Some(ProxyUrl))}

\* Environments of a server run.
EnvSamples ==
    {EnvAbsent, EnvNotUnicode, EnvSet(<<>>), EnvSet(<<"http", "://", "a">>),
     EnvSet(<<"/", "a">>), EnvSet(<<" ">>)}

VARIABLES
    env,                \* the value of HTMX_SSR_BASE_URL
    last_from_env,      \* what the last ServerOptions::from_env call returned
    from_env_calls,     \* from_env calls so far (saturating at 2)
    owned,              \* the caller still owns the Server value
    ctor,               \* the constructor that made it
    listener,           \* Server.listener
    router,             \* Server.router
    graceful_shutdown,  \* Server.graceful_shutdown
    options,            \* Server.options
    cfg_error,          \* the error with_options_from_env returned
    discarded,          \* signals a later setter replaced
    last_options,       \* the options value the latest options setter stored
    configured,         \* a configuration method has been called
    phase,              \* Bound, Serving, Draining, Terminated
    result,             \* what serve returned
    local_addr,         \* the address serve read from the listener
    state,              \* the ServerState serve built
    run_router,         \* the router handed to axum::serve
    run_signal,         \* the signal handed to with_graceful_shutdown
    sig_state,          \* that signal's future: none, unpolled, pending, resolved
    ctrlc_failed,       \* tokio::signal::ctrl_c() returned Err
    fired,              \* user signals whose event has occurred
    conns,              \* connections accepted, in order
    serve_calls,        \* serve calls so far (saturating at 2)
    states_built,       \* ServerState::new calls so far (saturating at 2)
    loop_starts,        \* accept loops started so far (saturating at 2)
    options_at_serve    \* Server.options when serve was called

cfg_vars == <<owned, ctor, listener, router, graceful_shutdown, options, cfg_error, discarded,
              last_options, configured>>
run_vars == <<phase, result, local_addr, state, run_router, run_signal, sig_state,
              ctrlc_failed, conns, serve_calls, states_built, loop_starts,
              options_at_serve>>
env_vars == <<env, last_from_env, from_env_calls>>
vars == <<env_vars, cfg_vars, run_vars, fired>>

Sat(n) == IF n < 2 THEN n + 1 ELSE 2

NoFromEnv == [ok |-> TRUE, options |-> DefaultOptions, error |-> NoError]

(***************************************************************************)
(* Server::new and Server::new_with_auto_reload                            *)
(***************************************************************************)
\* Server::new
New(l) ==
    /\ ctor = "new"
    /\ listener = l
    /\ router = {}
    /\ graceful_shutdown = NoSignal
    /\ options = DefaultOptions

\* Server::new_with_auto_reload: new, then with_ctrl_c_graceful_shutdown.
NewWithAutoReload(l) ==
    /\ ctor = "new_with_auto_reload"
    /\ listener = l
    /\ router = {}
    /\ graceful_shutdown = CtrlC
    /\ options = DefaultOptions

InitRest ==
    /\ last_from_env = NoFromEnv
    /\ from_env_calls = 0
    /\ owned = TRUE
    /\ \E l \in Listeners : New(l) \/ NewWithAutoReload(l)
    /\ cfg_error = NoError
    /\ discarded = {}
    /\ last_options = DefaultOptions
    /\ configured = FALSE
    /\ phase = "Bound"
    /\ result = "none"
    /\ local_addr = NoAddr
    /\ state = NoState
    /\ run_router = {}
    /\ run_signal = NoSignal
    /\ sig_state = "none"
    /\ ctrlc_failed = FALSE
    /\ fired = {}
    /\ conns = <<>>
    /\ serve_calls = 0
    /\ states_built = 0
    /\ loop_starts = 0
    /\ options_at_serve = DefaultOptions

Init == env \in EnvSamples /\ InitRest

(***************************************************************************)
(* Configuration.  Each method takes the Server by value or by exclusive   *)
(* reference, so the caller must still own it.                             *)
(***************************************************************************)
\* Server::router: mutable access, here used to add a route.
Router(r) ==
    /\ owned
    /\ router' = router \cup {r}
    /\ UNCHANGED <<owned, ctor, listener, graceful_shutdown, options, cfg_error, discarded>>
    /\ configured' = TRUE /\ UNCHANGED last_options
    /\ UNCHANGED <<env_vars, run_vars, fired>>

\* Server::with_router
WithRouter(rt) ==
    /\ owned
    /\ router' = rt
    /\ UNCHANGED <<owned, ctor, listener, graceful_shutdown, options, cfg_error, discarded>>
    /\ configured' = TRUE /\ UNCHANGED last_options
    /\ UNCHANGED <<env_vars, run_vars, fired>>

\* Server::options: mutable access, here used to assign base_url.
Options(b) ==
    /\ owned
    /\ options' = [options EXCEPT !.base_url = b]
    /\ UNCHANGED <<owned, ctor, listener, router, graceful_shutdown, cfg_error, discarded>>
    /\ configured' = TRUE /\ last_options' = ServerOptions(b)
    /\ UNCHANGED <<env_vars, run_vars, fired>>

\* Server::with_options
WithOptions(o) ==
    /\ owned
    /\ options' = o
    /\ UNCHANGED <<owned, ctor, listener, router, graceful_shutdown, cfg_error, discarded>>
    /\ configured' = TRUE /\ last_options' = o
    /\ UNCHANGED <<env_vars, run_vars, fired>>

\* `self.options = ServerOptions::from_env()?`: the whole value is replaced.
OptionsFromEnv(old, new) == new

\* Server::with_options_from_env: on Err the Server, moved in, is dropped.
WithOptionsFromEnv ==
    /\ owned
    /\ LET r == from_env(env)
       IN  /\ owned' = r.ok
           /\ options' = IF r.ok THEN OptionsFromEnv(options, r.options) ELSE options
           /\ last_options' = IF r.ok THEN r.options ELSE last_options
           /\ cfg_error' = r.error
    /\ configured' = TRUE
    /\ UNCHANGED <<ctor, listener, router, graceful_shutdown, discarded>>
    /\ UNCHANGED <<env_vars, run_vars, fired>>

\* The field after a setter stored `signal`: the earlier future is dropped.
KeepFirstSignal(old, signal) == IF old = NoSignal THEN signal ELSE old
StoreSignal(old, signal) == signal

\* Server::with_graceful_shutdown
SetGracefulShutdown(signal) ==
    /\ owned
    /\ graceful_shutdown' = StoreSignal(graceful_shutdown, signal)
    /\ discarded' = (discarded \cup {graceful_shutdown}) \ {NoSignal, signal}
    /\ UNCHANGED <<owned, ctor, listener, router, options, cfg_error>>
    /\ configured' = TRUE /\ UNCHANGED last_options
    /\ UNCHANGED <<env_vars, run_vars, fired>>

\* A future is moved into the Server: the caller cannot pass it again.
WithGracefulShutdown(signal) ==
    /\ signal \notin discarded \cup {graceful_shutdown}
    /\ SetGracefulShutdown(signal)

\* Server::with_ctrl_c_graceful_shutdown
WithCtrlCGracefulShutdown == SetGracefulShutdown(CtrlC)

(***************************************************************************)
(* Server::serve                                                           *)
(***************************************************************************)
\* serve takes self by value: the caller owns nothing afterwards.
OwnedAfterServe_Borrowed == TRUE
OwnedAfterServe == FALSE

\* The options serve passes to ServerState::new.
OptionsForState_Default(o) == DefaultOptions
OptionsForState(o) == o

\* `match self.graceful_shutdown`: the future axum is given, not yet polled.
SignalAtServe_AlwaysShutdown(gs) == IF gs = NoSignal THEN "resolved" ELSE "unpolled"
SignalAtServe(gs) == IF gs = NoSignal THEN "none" ELSE "unpolled"

\* Arc::new(state): every handler reads the one ServerState.
SharedState_PerConnection(st) == [st EXCEPT !.base_url = HttpUrlOf(local_addr)]
SharedState(st) == st

\* What serve does on an accept-loop error: map it into ServeError::Io.
AfterIoError_Retry == [phase |-> "Serving", result |-> "none", restart |-> TRUE]
AfterIoError == [phase |-> "Terminated", result |-> "Io", restart |-> FALSE]

\* Lines 223-235, up to the first await: read the address, build the state,
\* hand listener, router and signal to axum::serve.
ServeStart(addr) ==
    /\ local_addr' = addr
    /\ state' = ServerState_new(OptionsForState(options), addr)
    /\ states_built' = Sat(states_built)
    /\ run_router' = router
    /\ run_signal' = graceful_shutdown
    /\ sig_state' = SignalAtServe(graceful_shutdown)
    /\ loop_starts' = Sat(loop_starts)
    /\ conns' = <<>>
    /\ phase' = "Serving"
    /\ UNCHANGED <<ctrlc_failed>>

Serve ==
    /\ owned
    /\ owned' = OwnedAfterServe
    /\ serve_calls' = Sat(serve_calls)
    /\ options_at_serve' = options
    /\ \E la \in LocalAddrResults(listener) :
          IF la.ok
          THEN ServeStart(la.addr) /\ result' = "none"
          ELSE /\ phase' = "Terminated"
               /\ result' = "LocalAddr"
               /\ UNCHANGED <<local_addr, state, run_router, run_signal, sig_state,
                              ctrlc_failed, conns, states_built, loop_starts>>
    /\ UNCHANGED <<ctor, listener, router, graceful_shutdown, options, cfg_error, discarded,
                   last_options, configured>>
    /\ UNCHANGED <<env_vars, fired>>

(***************************************************************************)
(* The shutdown signal's future, polled by the task axum spawns for it.    *)
(***************************************************************************)
\* The event behind a user-supplied future occurs.
Fire(signal) ==
    /\ signal \notin fired
    /\ fired' = fired \cup {signal}
    /\ UNCHANGED <<env_vars, cfg_vars, run_vars>>

\* The ctrl-c future once ctrl_c().await returned Err: log, then fall through
\* to the end of the async block.
CtrlCAfterError == "resolved"

\* First poll of the future.
PollSignal ==
    /\ phase \in {"Serving", "Draining"}
    /\ sig_state = "unpolled"
    /\ \/ /\ run_signal \in UserSignals
          /\ sig_state' = IF run_signal \in fired THEN "resolved" ELSE "pending"
          /\ UNCHANGED ctrlc_failed
       \/ /\ run_signal = CtrlC
          /\ sig_state' = "pending"
          /\ UNCHANGED ctrlc_failed
       \/ /\ run_signal = CtrlC
          /\ ctrlc_failed' = TRUE
          /\ sig_state' = CtrlCAfterError
    /\ UNCHANGED <<phase, result, local_addr, state, run_router, run_signal, conns,
                   serve_calls, states_built, loop_starts, options_at_serve>>
    /\ UNCHANGED <<env_vars, cfg_vars, fired>>

\* The pending future is woken: its event occurred, or ctrl-c was received.
SignalResolve ==
    /\ phase \in {"Serving", "Draining"}
    /\ sig_state = "pending"
    /\ ~ctrlc_failed
    /\ run_signal \in fired \cup {CtrlC}
    /\ sig_state' = "resolved"
    /\ UNCHANGED <<phase, result, local_addr, state, run_router, run_signal, ctrlc_failed,
                   conns, serve_calls, states_built, loop_starts, options_at_serve>>
    /\ UNCHANGED <<env_vars, cfg_vars, fired>>

(***************************************************************************)
(* axum::serve: the accept loop, with or without graceful shutdown.        *)
(***************************************************************************)
\* The loop accepts a connection and spawns its task.
Accept ==
    /\ phase = "Serving"
    /\ Len(conns) < MaxConns
    /\ conns' = Append(conns, [done |-> FALSE, late |-> sig_state = "resolved"])
    /\ state' = SharedState(state)
    /\ UNCHANGED <<phase, result, local_addr, run_router, run_signal, sig_state,
                   ctrlc_failed, serve_calls, states_built, loop_starts, options_at_serve>>
    /\ UNCHANGED <<env_vars, cfg_vars, fired>>

\* A connection's task runs to completion.
ConnFinish(i) ==
    /\ i \in 1..Len(conns)
    /\ ~conns[i].done
    /\ conns' = [conns EXCEPT ![i].done = TRUE]
    /\ UNCHANGED <<phase, result, local_addr, state, run_router, run_signal, sig_state,
                   ctrlc_failed, serve_calls, states_built, loop_starts, options_at_serve>>
    /\ UNCHANGED <<env_vars, cfg_vars, fired>>

\* The loop's select sees the signal task done: it stops accepting.
ShutdownObserved ==
    /\ phase = "Serving"
    /\ sig_state = "resolved"
    /\ phase' = "Draining"
    /\ UNCHANGED <<result, local_addr, state, run_router, run_signal, sig_state,
                   ctrlc_failed, conns, serve_calls, states_built, loop_starts,
                   options_at_serve>>
    /\ UNCHANGED <<env_vars, cfg_vars, fired>>

\* Graceful shutdown waits for every connection task.
DrainFinished_NoWait(cs) == TRUE
DrainFinished(cs) == \A i \in 1..Len(cs) : cs[i].done

\* The drain is over: serve returns Ok(()).
DrainComplete ==
    /\ phase = "Draining"
    /\ DrainFinished(conns)
    /\ phase' = "Terminated"
    /\ result' = "Ok"
    /\ UNCHANGED <<local_addr, state, run_router, run_signal, sig_state, ctrlc_failed,
                   conns, serve_calls, states_built, loop_starts, options_at_serve>>
    /\ UNCHANGED <<env_vars, cfg_vars, fired>>

\* The accept loop ends with an I/O error: `.map_err(Into::into)`.
AcceptFail ==
    /\ phase = "Serving"
    /\ phase' = AfterIoError.phase
    /\ result' = AfterIoError.result
    /\ loop_starts' = IF AfterIoError.restart THEN Sat(loop_starts) ELSE loop_starts
    /\ UNCHANGED <<local_addr, state, run_router, run_signal, sig_state, ctrlc_failed,
                   conns, serve_calls, states_built, options_at_serve>>
    /\ UNCHANGED <<env_vars, cfg_vars, fired>>

Next ==
    \/ \E r \in Routes : Router(r)
    \/ \E rt \in SUBSET Routes : WithRouter(rt)
    \/ \E o \in OptionChoices : Options(o.base_url)
    \/ \E o \in OptionChoices : WithOptions(o)
    \/ WithOptionsFromEnv
    \/ \E s \in UserSignals : WithGracefulShutdown(s)
    \/ WithCtrlCGracefulShutdown
    \/ Serve
    \/ \E s \in UserSignals : Fire(s)
    \/ PollSignal
    \/ SignalResolve
    \/ Accept
    \/ \E i \in 1..MaxConns : ConnFinish(i)
    \/ ShutdownObserved
    \/ DrainComplete
    \/ AcceptFail

Spec == Init /\ [][Next]_vars

(***************************************************************************)
(* ServerOptions::from_env on its own, over every environment.             *)
(***************************************************************************)
InitEnv == env \in EnvValues /\ InitRest

FromEnvCall ==
    /\ last_from_env' = from_env(env)
    /\ from_env_calls' = Sat(from_env_calls)
    /\ UNCHANGED <<env, cfg_vars, run_vars, fired>>

NextEnv == FromEnvCall

SpecEnv == InitEnv /\ [][NextEnv]_vars

(***************************************************************************)
(* Properties                                                              *)
(***************************************************************************)
PhaseRank(ph) ==
    CASE ph = "Bound" -> 0
      [] ph = "Serving" -> 1
      [] ph = "Draining" -> 2
      [] OTHER -> 3

AllDone(cs) == \A i \in 1..Len(cs) : cs[i].done

\* C1: when the ctrl-c signal is the registered one and registering for the
\* interrupt fails, the failure is only logged: the signal does not resolve,
\* and serve neither drains nor returns Ok(()) because of it.
C1_CtrlCFailureOnlyLogged ==
    (run_signal = CtrlC /\ ctrlc_failed) =>
        /\ sig_state # "resolved"
        /\ phase # "Draining"
        /\ result # "Ok"

C3_BaseUrlResolution ==
    state.built =>
        state.base_url =
            IF options_at_serve.base_url.some
            THEN options_at_serve.base_url.val
            ELSE MkUri(TRUE, <<"http">>,
                       <<listener.local.ip \o ":" \o listener.local.port>>, <<>>)

\* C3 witness: port 0 was asked for, no base URL was set, and the state
\* carries the OS-assigned port.
C3_Witness ==
    /\ state.built
    /\ listener.requested = "0"
    /\ ~options_at_serve.base_url.some
    /\ state.base_url.authority = <<"127.0.0.1:49153">>

\* C4: with no shutdown signal registered, serve never drains and never
\* returns Ok(()); it returns only ServeError::Io or ServeError::LocalAddr.
C4_NoSignalNeverOk ==
    (serve_calls > 0 /\ graceful_shutdown = NoSignal) =>
        /\ sig_state = "none"
        /\ phase # "Draining"
        /\ result # "Ok"
        /\ phase = "Terminated" => result \in {"Io", "LocalAddr"}

\* C4 witness: a run without a signal keeps serving although user events
\* have fired and every accepted connection is done.
C4_Witness ==
    /\ graceful_shutdown = NoSignal
    /\ phase = "Serving"
    /\ fired = UserSignals
    /\ Len(conns) > 0 /\ AllDone(conns)

C6_OnlyAbsoluteAccepted ==
    from_env_calls > 0 =>
        /\ (env.kind = "Present" /\ env.value # <<>>) =>
              IF last_from_env.ok
              THEN /\ last_from_env.options.base_url.some
                   /\ last_from_env.options.base_url.val.has_scheme
                   /\ last_from_env.options.base_url.val.authority # <<>>
              ELSE /\ last_from_env.error.kind = "BaseUrl"
                   /\ last_from_env.error.name = HTMX_SSR_BASE_URL
                   /\ last_from_env.error.url = env.value
        /\ env.kind = "NotUnicode" =>
              /\ ~last_from_env.ok
              /\ last_from_env.error = NotUnicode(HTMX_SSR_BASE_URL)

\* C7: serve retries nothing.  A local_addr failure returns LocalAddr with
\* no state built, no accept loop started and the signal never polled; an
\* accept-loop failure returns Io; the accept loop starts at most once.
C7_ErrorsTerminal ==
    /\ loop_starts <= 1
    /\ result = "LocalAddr" =>
          /\ phase = "Terminated"
          /\ ~state.built /\ states_built = 0
          /\ loop_starts = 0 /\ conns = <<>>
          /\ sig_state = "none" /\ ~ctrlc_failed
    /\ result = "Io" => phase = "Terminated" /\ loop_starts = 1
    /\ phase = "Terminated" => result \in {"Ok", "Io", "LocalAddr"}
    /\ phase \in {"Serving", "Draining"} => result = "none"

\* C7 witness: local_addr failed on a Server with a signal registered whose
\* event has already occurred.
C7_Witness ==
    /\ result = "LocalAddr"
    /\ graceful_shutdown \in UserSignals
    /\ graceful_shutdown \in fired

\* C8: a run only moves forward through Bound, Serving, Draining,
\* Terminated; serve is invoked at most once; once it has been, the caller
\* owns no Server and the routes, options and signal no longer change.
C8_ForwardOnly ==
    [][/\ PhaseRank(phase') >= PhaseRank(phase)
       /\ serve_calls' <= 1
       /\ serve_calls' > 0 => ~owned'
       /\ serve_calls > 0 =>
             UNCHANGED <<router, options, graceful_shutdown, listener,
                         run_router, run_signal, options_at_serve>>]_vars

\* C8 witness: a configured Server went through serve, drain and return.
C8_Witness ==
    /\ phase = "Terminated"
    /\ result = "Ok"
    /\ serve_calls = 1
    /\ router # {}
    /\ options.base_url.some

\* C9: the ServerState is built exactly once per run, in serve, from the
\* bound address and the options of the serve call, before any connection
\* is accepted; it never changes afterwards.
C9_StateBuiltOnce ==
    [][/\ states_built' <= 1
       /\ states_built' > states_built =>
             /\ serve_calls = 0
             /\ local_addr' = listener.local
             /\ loop_starts = 0
             /\ conns' = <<>>
             /\ state'.built
             /\ options.base_url.some => state'.base_url = options.base_url.val
       /\ phase' \in {"Serving", "Draining"} => state'.built /\ states_built' = 1
       /\ state.built => state' = state]_vars

\* C9 witness: a drain with every allowed connection accepted, under a
\* state built from an explicit base URL.
C9_Witness ==
    /\ phase = "Draining"
    /\ Len(conns) = MaxConns
    /\ state.built
    /\ state.base_url = ProxyUrl

\* C10: the Server holds the signal and the options of the most recent
\* setter; a replaced signal never triggers the drain; from_env's value
\* replaces an earlier explicit base_url; new starts with no signal, an
\* empty router and base_url = None.
C10_LatestSetterWins ==
    /\ graceful_shutdown \notin discarded
    /\ options = last_options
    /\ run_signal \notin discarded
    /\ (sig_state = "resolved" \/ phase = "Draining" \/ result = "Ok") =>
          /\ run_signal = graceful_shutdown
          /\ run_signal # NoSignal
          /\ run_signal \in UserSignals => run_signal \in fired
    /\ (ctor = "new" /\ ~configured) =>
          /\ graceful_shutdown = NoSignal
          /\ router = {}
          /\ options = ServerOptions(None)

\* C10 witness: s1 was replaced by s2, the options came from an environment
\* without the variable, s1's event has occurred and the run keeps serving.
C10_Witness ==
    /\ "s1" \in discarded
    /\ "s1" \in fired
    /\ run_signal = "s2"
    /\ sig_state = "pending"
    /\ phase = "Serving"
    /\ env = EnvAbsent
    /\ ~options_at_serve.base_url.some

====
